---- MODULE Spec2Model ----
(***************************************************************************)
(* image-permute: the mixed-radix enumerator of src/util.rs                *)
(* (SetVariationIterator), the copy of it the scheduler uses               *)
(* (PowerSetIterator, src/executors.rs) and the two-level parallel         *)
(* scheduler FusedExecutor (src/executors.rs) over the stage builders of   *)
(* src/stages.rs.                                                          *)
(*                                                                         *)
(* SpecEnum   drives one SetVariationIterator by repeated next() calls.    *)
(* SpecBoth   drives a SetVariationIterator and a PowerSetIterator made    *)
(*            from the same base list, call by call.                       *)
(* Spec       drives FusedExecutor::execute over a batch of images, any    *)
(*            img.save() free to fail.                                     *)
(* SpecOk     is Spec restricted to the runs in which every img.save()     *)
(*            succeeds.                                                    *)
(* FairSpecOk is SpecOk on batches of files of one stem, the pool's        *)
(*            threads never stopping while a step can be taken.            *)
(* SpecImage  is SpecOk on one decoded image, over more registries and     *)
(*            tag sets.                                                    *)
(*                                                                         *)
(* An image is its source and the list of stages applied to it; sigma is   *)
(* held in thousandths, angles in thousandths of a radian; the random      *)
(* source is a fixed function of its seed and the number of draws made.    *)
(* The executor is driven with at least one registered builder.            *)
(***************************************************************************)
EXTENDS Integers, Sequences, FiniteSets, TLC

\* ------------------------------------------------------------------ bounds
\* longest base list handed to possibilities()
MaxLen == 3
\* largest base in a list
MaxBase == 3
\* bases range down to -NegBases (signed N)
NegBases == 1
\* next() calls made after the first None
MaxExtraCalls == 2
\* images in one batch
MaxImages == 2
\* combinations in one batch of several images, over all of them
MaxWork == 6
\* worker loops par_bridge runs over one image's combinations
NumWorkers == 2
\* img.save() calls that fail in one run
MaxFailures == 1

VARIABLES
    it,         \* the SetVariationIterator: [maxes, variation, finished]
    emitted,    \* the vectors next() has returned so far, in order
    ret,        \* what the last next() call returned
    extra       \* number of next() calls made after the first None

enumVars == <<it, emitted, ret, extra>>

VARIABLES
    stages,     \* FusedExecutor.stages: the registered builders, in order
    images,     \* the batch handed to execute(): [stem, tags, decodes] records
    cuts,       \* where the outer par_iter split the batch into sequential leaves
    imgState,   \* per image: "pending", "skipped", "running", "done", "panicked"
    iters,      \* per image: the PowerSetIterator behind par_bridge
    workers,    \* per image: the par_bridge worker loops
    built,      \* <<image, builder>> pairs build_stage was called for
    written,    \* every successful img.save(): [img, set, frags, path, content]
    failed,     \* <<image, set>> pairs whose img.save() returned Err
    files,      \* the output directory: path -> content (last write wins)
    saves       \* per image: the number of img.save() calls that returned Ok

schedVars ==
    <<stages, images, cuts, imgState, iters, workers, built, written, failed, files, saves>>

VARIABLES
    ps,         \* a PowerSetIterator driven beside the SetVariationIterator
    psEmitted,  \* the vectors its next() has returned so far, in order
    psRet       \* what its last next() call returned

pairVars == <<ps, psEmitted, psRet>>

vars == <<enumVars, schedVars, pairVars>>

\* ------------------------------------------------------------- Option<T>
None == [some |-> FALSE, val |-> <<>>]
Some(v) == [some |-> TRUE, val |-> v]
\* the result of a call that has not happened yet
NotCalled == [some |-> FALSE, val |-> <<-1>>]
\* the call unwound with a panic (index out of bounds)
Panicked == [some |-> FALSE, val |-> <<-2>>]

\* vec![N::zero(); n]
Zeros(n) == [i \in 1..n |-> 0]

\* ------------------------------------------------- util.rs: the enumerator
\* SetEnumerator::possibilities
possibilities(bases) == [maxes |-> bases, variation |-> None, finished |-> FALSE]

\* `variation[idx] > *max`
ExceedsEq(digit, max) == digit >= max
ExceedsOnlyNext(digit, max) == digit = max + 1
Exceeds(digit, max) == digit > max

\* `variation[0] += N::one()`
BumpLast(variation) == [variation EXCEPT ![Len(variation)] = @ + 1]
Bump(variation) == [variation EXCEPT ![1] = @ + 1]

\* the `for (idx, max) in self.maxes.iter().enumerate()` loop, entered at
\* position idx (1-based here); wrapped tells that the carry left the last digit
CarryNoCascade(variation, maxes, idx) ==
    IF idx > Len(maxes) THEN [variation |-> variation, wrapped |-> FALSE]
    ELSE IF Exceeds(variation[idx], maxes[idx])
         THEN IF idx < Len(variation)
              THEN [variation |-> [variation EXCEPT ![idx] = 0, ![idx + 1] = @ + 1],
                    wrapped |-> FALSE]
              ELSE [variation |-> [variation EXCEPT ![idx] = 0], wrapped |-> TRUE]
         ELSE [variation |-> variation, wrapped |-> FALSE]

RECURSIVE CarryLoop(_, _, _)
CarryLoop(variation, maxes, idx) ==
    IF idx > Len(maxes) THEN [variation |-> variation, wrapped |-> FALSE]
    ELSE IF Exceeds(variation[idx], maxes[idx])
         THEN LET reset == [variation EXCEPT ![idx] = 0]
              IN IF idx < Len(variation)
                 THEN CarryLoop([reset EXCEPT ![idx + 1] = @ + 1], maxes, idx + 1)
                 ELSE [variation |-> reset, wrapped |-> TRUE]
         ELSE [variation |-> variation, wrapped |-> FALSE]

\* the arm without `self.finished = true` before `return None`
AdvanceNeverFinished(self) ==
    IF Len(self.variation.val) = 0
    THEN [self |-> self, ret |-> Panicked]
    ELSE LET r == CarryLoop(Bump(self.variation.val), self.maxes, 1)
         IN IF r.wrapped
            THEN [self |-> [self EXCEPT !.variation = Some(r.variation)], ret |-> None]
            ELSE [self |-> [self EXCEPT !.variation = Some(r.variation)],
                  ret |-> Some(r.variation)]

\* the `Some(ref mut variation)` arm; indexing an empty vector panics
Advance(self) ==
    IF Len(self.variation.val) = 0
    THEN [self |-> self, ret |-> Panicked]
    ELSE LET r == CarryLoop(Bump(self.variation.val), self.maxes, 1)
         IN IF r.wrapped
            THEN [self |-> [self EXCEPT !.variation = Some(r.variation),
                                        !.finished = TRUE],
                  ret |-> None]
            ELSE [self |-> [self EXCEPT !.variation = Some(r.variation)],
                  ret |-> Some(r.variation)]

\* the `None` arm: the first call emits the all-zero vector
FirstVariation(self) ==
    LET variation == Zeros(Len(self.maxes))
    IN [self |-> [self EXCEPT !.variation = Some(variation)], ret |-> Some(variation)]

\* `if self.finished || self.maxes.is_empty()`
EndedNoEmptyCheck(self) == self.finished
Ended(self) == self.finished \/ Len(self.maxes) = 0

\* SetVariationIterator::next
SetVariationIterator_next(self) ==
    IF Ended(self) THEN [self |-> self, ret |-> None]
    ELSE IF ~self.variation.some THEN FirstVariation(self)
    ELSE Advance(self)

\* ------------------------------------------------------ stages.rs: labels
CWISE_LABEL == "Rotated 90 degrees clockwise"
CCWISE_LABEL == "Rotated 90 degrees counterclockwise"
UPSIDE_DOWN_LABEL == "Upside-down"
OFF_AXIS_LABEL == "Rotated off-axis"
BRIGHTEN_LABEL == "Bright"
DARKEN_LABEL == "Dark"
BLURRED_LABEL == "Blurred"

\* ------------------------------------------------- the random source R
\* R::seed_from_u64: a generator is its seed and the number of draws made
seed_from_u64(seed) == [seed |-> seed, pos |-> 0]

\* the raw value of the draw a generator makes next: a fixed function of the
\* seed and the draw's position
next_u64(rng) == (rng.seed * 7919 + rng.pos * 3571 + 977) % 65521

\* one Uniform / gen_range sample in lo..hi (hi exclusive), and the generator after it
sample(rng, lo, hi) ==
    [value |-> lo + (next_u64(rng) % (hi - lo)), rng |-> [rng EXCEPT !.pos = @ + 1]]

\* --------------------------------------------------- stages.rs: builders
\* sigma is held in thousandths, deg_limit in whole degrees
OffAxisRotationBuilder(samples, deg_limit) ==
    [kind |-> "OffAxis", samples |-> samples, lo |-> 0, hi |-> deg_limit]
RotationBuilder == [kind |-> "Rotation", samples |-> 3, lo |-> 0, hi |-> 0]
LuminosityBuilder(min_luma, max_luma) ==
    [kind |-> "Luminosity", samples |-> 2, lo |-> min_luma, hi |-> max_luma]
BlurBuilder(samples, min_sigma, max_sigma) ==
    [kind |-> "Blur", samples |-> samples, lo |-> min_sigma, hi |-> max_sigma]

Stage(kind, param) == [kind |-> kind, param |-> param]

\* std::f64::consts::PI, in ten-thousandths
PI == 31416

\* deg_to_rad: whole degrees to thousandths of a radian
deg_to_rad(deg) == (deg * PI) \div 1800

\* |x|
Abs(x) == IF x < 0 THEN 0 - x ELSE x

\* rad_to_deg: thousandths of a radian to thousandths of a degree
rad_to_deg(rad) ==
    LET d == (Abs(rad) * 1800000) \div PI
    IN IF rad < 0 THEN 0 - d ELSE d

\* StageBuilder::should_execute
should_execute(bd, tags) ==
    CASE bd.kind = "OffAxis" -> ~(OFF_AXIS_LABEL \in tags)
      [] bd.kind = "Rotation" ->
            ~(CWISE_LABEL \in tags \/ CCWISE_LABEL \in tags \/ UPSIDE_DOWN_LABEL \in tags)
      [] bd.kind = "Luminosity" -> ~(BRIGHTEN_LABEL \in tags \/ DARKEN_LABEL \in tags)
      [] bd.kind = "Blur" -> ~(BLURRED_LABEL \in tags)

\* StageBuilder::variations
variations_TwoRotations(bd) ==
    CASE bd.kind = "OffAxis" -> bd.samples
      [] bd.kind = "Rotation" -> 2
      [] bd.kind = "Luminosity" -> 2
      [] bd.kind = "Blur" -> bd.samples
variations(bd) ==
    CASE bd.kind = "OffAxis" -> bd.samples
      [] bd.kind = "Rotation" -> 3
      [] bd.kind = "Luminosity" -> 2
      [] bd.kind = "Blur" -> bd.samples

\* rng.sample_iter(Uniform::from(lo..hi)).take(n): n draws in a row
RECURSIVE sample_iter(_, _, _, _)
sample_iter(rng, lo, hi, n) ==
    IF n = 0 THEN <<>>
    ELSE LET d == sample(rng, lo, hi)
         IN <<d.value>> \o sample_iter(d.rng, lo, hi, n - 1)

\* StageBuilder::build_stage
build_stage(bd, rng) ==
    CASE bd.kind = "OffAxis" ->
            LET rad_limit == deg_to_rad(bd.hi)
                angles == sample_iter(rng, 0 - rad_limit, rad_limit, bd.samples)
            IN [j \in 1..Len(angles) |-> Stage("OffAxis", angles[j])]
      [] bd.kind = "Rotation" ->
            <<Stage("Clockwise", 0), Stage("Cclockwise", 0), Stage("UpsideDown", 0)>>
      [] bd.kind = "Luminosity" ->
            LET bright == sample(rng, bd.lo, bd.hi)
                dark == sample(bright.rng, 0 - bd.hi, 0 - bd.lo)
            IN <<Stage("Luminosity", bright.value), Stage("Luminosity", dark.value)>>
      [] bd.kind = "Blur" ->
            LET sigmas == sample_iter(rng, bd.lo, bd.hi, bd.samples)
            IN [j \in 1..Len(sigmas) |-> Stage("Blur", sigmas[j])]

\* format!("{:0.2}", sigma): thousandths rounded to two decimals
Fixed2(thousandths) ==
    LET h == (thousandths + 5) \div 10
        frac == h % 100
    IN ToString(h \div 100) \o "." \o (IF frac < 10 THEN "0" ELSE "") \o ToString(frac)

\* format!("{:.2}", x) of a signed value held in thousandths
Fixed2Signed(thousandths) ==
    (IF thousandths < 0 THEN "-" ELSE "") \o Fixed2(Abs(thousandths))

\* ImageStage::name
Stage_name(st) ==
    CASE st.kind = "OffAxis" -> "rot_" \o Fixed2Signed(rad_to_deg(st.param)) \o "_deg"
      [] st.kind = "Clockwise" -> "clowise"
      [] st.kind = "Cclockwise" -> "couwise"
      [] st.kind = "UpsideDown" -> "up_down"
      [] st.kind = "Luminosity" ->
            IF st.param < 0 THEN "dark_" \o ToString(st.param)
            ELSE "bright_" \o ToString(st.param)
      [] st.kind = "Blur" -> "blur_" \o Fixed2(st.param)

\* the label a stage tags its output with
Stage_label(st) ==
    CASE st.kind = "OffAxis" -> OFF_AXIS_LABEL
      [] st.kind = "Clockwise" -> CWISE_LABEL
      [] st.kind = "Cclockwise" -> CCWISE_LABEL
      [] st.kind = "UpsideDown" -> UPSIDE_DOWN_LABEL
      [] st.kind = "Luminosity" -> IF st.param < 0 THEN DARKEN_LABEL ELSE BRIGHTEN_LABEL
      [] st.kind = "Blur" -> BLURRED_LABEL

\* ImageStage::execute: the pixel transform is external; an image is its source
\* and the stages applied to it, in order
Stage_execute(st, img) ==
    [img |-> [img EXCEPT !.ops = Append(@, st)], tags |-> {Stage_label(st)}]

\* ------------------------------------- executors.rs: PowerSetIterator
\* PowerSetAdapter::power_set
power_set(bases) == [maxes |-> bases, variation |-> None, finished |-> FALSE]

\* `variation[idx] > *max`
PowerSet_ExceedsEq(digit, max) == digit >= max
PowerSet_Exceeds(digit, max) == digit > max

\* the loop with `idx < variation.len() - 2`: a carry out of the digit before
\* the last ends the iteration
RECURSIVE PowerSet_CarryLoopEndsEarly(_, _, _)
PowerSet_CarryLoopEndsEarly(variation, maxes, idx) ==
    IF idx > Len(maxes) THEN [variation |-> variation, wrapped |-> FALSE]
    ELSE IF PowerSet_Exceeds(variation[idx], maxes[idx])
         THEN LET reset == [variation EXCEPT ![idx] = 0]
              IN IF idx < Len(variation) - 1
                 THEN PowerSet_CarryLoopEndsEarly([reset EXCEPT ![idx + 1] = @ + 1],
                                                  maxes, idx + 1)
                 ELSE [variation |-> reset, wrapped |-> TRUE]
         ELSE [variation |-> variation, wrapped |-> FALSE]

RECURSIVE PowerSet_CarryLoop(_, _, _)
PowerSet_CarryLoop(variation, maxes, idx) ==
    IF idx > Len(maxes) THEN [variation |-> variation, wrapped |-> FALSE]
    ELSE IF PowerSet_Exceeds(variation[idx], maxes[idx])
         THEN LET reset == [variation EXCEPT ![idx] = 0]
              IN IF idx < Len(variation)
                 THEN PowerSet_CarryLoop([reset EXCEPT ![idx + 1] = @ + 1], maxes, idx + 1)
                 ELSE [variation |-> reset, wrapped |-> TRUE]
         ELSE [variation |-> variation, wrapped |-> FALSE]

\* PowerSetIterator::next; `variation[0] += N::one()` on an empty vector panics
PowerSetIterator_next(self) ==
    IF self.finished THEN [self |-> self, ret |-> None]
    ELSE IF ~self.variation.some
    THEN LET variation == Zeros(Len(self.maxes))
         IN [self |-> [self EXCEPT !.variation = Some(variation)], ret |-> Some(variation)]
    ELSE IF Len(self.variation.val) = 0 THEN [self |-> self, ret |-> Panicked]
    ELSE LET r == PowerSet_CarryLoop([self.variation.val EXCEPT ![1] = @ + 1],
                                     self.maxes, 1)
         IN IF r.wrapped
            THEN [self |-> [self EXCEPT !.variation = Some(r.variation),
                                        !.finished = TRUE],
                  ret |-> None]
            ELSE [self |-> [self EXCEPT !.variation = Some(r.variation)],
                  ret |-> Some(r.variation)]

\* ---------------------------------------- executors.rs: FusedExecutor
\* a character's code point (`c as u64`)
CharCode == [c \in {"a", "b"} |-> IF c = "a" THEN 97 ELSE 98]

\* `name.chars().map(|c| c as u64).sum()`
RECURSIVE CharSum(_)
CharSum(chars) == IF chars = <<>> THEN 0 ELSE CharCode[Head(chars)] + CharSum(Tail(chars))

\* the file stem as a string
RECURSIVE StemString(_)
StemString(chars) == IF chars = <<>> THEN "" ELSE Head(chars) \o StemString(Tail(chars))

\* the seed all_pipelines derives from the image name
SeedOf(stem) == CharSum(stem)

\* `bd.variations() * (bd.should_execute(tags) as usize)`
BaseUngated(bd, tags) == variations(bd)
Base(bd, tags) == variations(bd) * (IF should_execute(bd, tags) THEN 1 ELSE 0)

\* the base list all_pipelines hands to power_set()
BasesOf(registry, tags) == [idx \in 1..Len(registry) |-> Base(registry[idx], tags)]

\* image::open(..).to_rgba8(): the pixels of input i
Loaded(i) == [src |-> i, ops |-> <<>>]

\* `img.clone()`: the buffer a combination starts from
SharedImage(i) ==
    IF \E r \in written : r.img = i
    THEN (CHOOSE r \in written : r.img = i /\ \A q \in written :
                                    q.img = i => Len(q.content.ops) <= Len(r.content.ops)).content
    ELSE Loaded(i)
CloneImage(i) == Loaded(i)

\* the draws build_stage makes on its generator
Draws(bd) ==
    CASE bd.kind = "Rotation" -> 0
      [] bd.kind = "Luminosity" -> 2
      [] OTHER -> bd.samples

\* the closure with one generator made before the filter_map and handed on
\* from builder to builder
RECURSIVE DrawsBefore(_, _)
DrawsBefore(set, idx) ==
    IF idx <= 1 THEN 0
    ELSE DrawsBefore(set, idx - 1)
         + (IF set[idx - 1] > 0 THEN Draws(stages[idx - 1]) ELSE 0)

BuildTaskSharedRng(set, seed) ==
    LET entry(idx) == [idx |-> idx, variant |-> set[idx],
                       stage |-> build_stage(stages[idx],
                                     [seed |-> seed, pos |-> DrawsBefore(set, idx)])]
        used(e) == e.variant > 0
    IN SelectSeq([idx \in 1..Len(set) |-> entry(idx)], used)

\* the `.map(|set| ...filter_map...)` closure: for each position with a digit
\* above 0, a freshly seeded generator and the builder's variant list
BuildTask(set, seed) ==
    LET entry(idx) == [idx |-> idx, variant |-> set[idx],
                       stage |-> build_stage(stages[idx], seed_from_u64(seed))]
        used(e) == e.variant > 0
    IN SelectSeq([idx \in 1..Len(set) |-> entry(idx)], used)

\* `stage[variant - 1]`: the element a digit selects (lists are 1-based here)
SelectOffByOne(stage, variant) == stage[IF variant < Len(stage) THEN variant + 1 ELSE 1]
Select(stage, variant) == stage[variant]

\* the loop running the entries from the last to the first
RECURSIVE RunStagesReversed(_, _, _)
RunStagesReversed(task, k, acc) ==
    IF k > Len(task) THEN acc
    ELSE LET e == task[Len(task) + 1 - k]
             st == Select(e.stage, e.variant)
         IN RunStagesReversed(task, k + 1,
                      [img |-> Stage_execute(st, acc.img).img,
                       name |-> acc.name \o "_" \o Stage_name(st),
                       frags |-> Append(acc.frags, [idx |-> e.idx, frag |-> Stage_name(st)])])

\* the loop checking should_execute again on the tags the stages applied so
\* far have produced
RECURSIVE RunStagesThreaded(_, _, _)
RunStagesThreaded(task, k, acc) ==
    IF k > Len(task) THEN acc
    ELSE LET st == Select(task[k].stage, task[k].variant)
             tags == {Stage_label(acc.img.ops[j]) : j \in 1..Len(acc.img.ops)}
         IN IF should_execute(stages[task[k].idx], tags)
            THEN RunStagesThreaded(task, k + 1,
                      [img |-> Stage_execute(st, acc.img).img,
                       name |-> acc.name \o "_" \o Stage_name(st),
                       frags |-> Append(acc.frags, [idx |-> task[k].idx,
                                                    frag |-> Stage_name(st)])])
            ELSE RunStagesThreaded(task, k + 1, acc)

\* the loop binding a new `name` in its body, the outer one left as it was
RECURSIVE RunStagesShadowedName(_, _, _)
RunStagesShadowedName(task, k, acc) ==
    IF k > Len(task) THEN acc
    ELSE LET st == Select(task[k].stage, task[k].variant)
         IN RunStagesShadowedName(task, k + 1,
                      [img |-> Stage_execute(st, acc.img).img,
                       name |-> acc.name,
                       frags |-> Append(acc.frags, [idx |-> task[k].idx,
                                                    frag |-> Stage_name(st)])])

\* the `for (variant, stage) in stages` loop from entry k on
RECURSIVE RunStages(_, _, _)
RunStages(task, k, acc) ==
    IF k > Len(task) THEN acc
    ELSE LET st == Select(task[k].stage, task[k].variant)
         IN RunStages(task, k + 1,
                      [img |-> Stage_execute(st, acc.img).img,
                       name |-> acc.name \o "_" \o Stage_name(st),
                       frags |-> Append(acc.frags, [idx |-> task[k].idx,
                                                    frag |-> Stage_name(st)])])

\* `path.push(name + ".png")` under out_dir
OutPath(name) == "processed/" \o name \o ".png"

\* what one combination's task hands to img.save()
Output(i, task) ==
    LET r == RunStages(task, 1, [img |-> CloneImage(i),
                                 name |-> StemString(images[i].stem),
                                 frags |-> <<>>])
    IN [path |-> OutPath(r.name), content |-> r.img, frags |-> r.frags]

\* ------------------------------------------------ the enumerator, driven
Bases == (0 - NegBases)..MaxBase

BaseLists == UNION {[1..n -> Bases] : n \in 0..MaxLen}

\* no executor runs beside the enumerator
NoExecutor ==
    /\ stages = <<>>
    /\ images = <<>>
    /\ cuts = {}
    /\ imgState = <<>>
    /\ iters = <<>>
    /\ workers = <<>>
    /\ built = {}
    /\ written = {}
    /\ failed = {}
    /\ files = <<>>
    /\ saves = <<>>

\* no PowerSetIterator runs beside the enumerator
NoPair ==
    /\ ps = power_set(<<>>)
    /\ psEmitted = <<>>
    /\ psRet = NotCalled

InitEnum ==
    /\ it \in {possibilities(b) : b \in BaseLists}
    /\ emitted = <<>>
    /\ ret = NotCalled
    /\ extra = 0
    /\ NoExecutor
    /\ NoPair

\* one call of next() by the consumer
CallNext ==
    /\ extra < MaxExtraCalls
    /\ LET r == SetVariationIterator_next(it)
       IN /\ it' = r.self
          /\ ret' = r.ret
          /\ emitted' = IF r.ret.some THEN Append(emitted, r.ret.val) ELSE emitted
          /\ extra' = IF ret = None THEN extra + 1 ELSE extra
    /\ UNCHANGED <<schedVars, pairVars>>

NextEnum == CallNext

SpecEnum == InitEnum /\ [][NextEnum]_vars

\* ------------------------------------------------------ counting vectors
\* PRODUCT over positions 1..upto of (b_i + 1)
RECURSIVE Radix(_, _)
Radix(bases, upto) == IF upto = 0 THEN 1 ELSE Radix(bases, upto - 1) * (bases[upto] + 1)

TotalCount(bases) == Radix(bases, Len(bases))

\* -------------------------------------------------- the executor, driven
\* the registry main() builds, the one of the specification's scenario, a blur
\* whose sigma range is narrower than its name's two decimals, and a luminosity
Registries ==
    { <<BlurBuilder(1, 5000, 10000), RotationBuilder>>,
      <<RotationBuilder, BlurBuilder(2, 5000, 10000)>>,
      <<BlurBuilder(2, 5000, 5004)>>,
      <<LuminosityBuilder(5, 10), BlurBuilder(1, 5000, 10000)>> }

Stems == {<<"a">>, <<"a", "b">>}

TagSets == {{}, {BLURRED_LABEL}}

\* the input records: any stem and tags on a file that decodes, and one file
\* that does not (its tags are never read)
ImageRecords ==
    [stem : Stems, tags : TagSets, decodes : {TRUE}]
        \cup {[stem |-> <<"a">>, tags |-> {}, decodes |-> FALSE]}

Batches == UNION {[1..n -> ImageRecords] : n \in 1..MaxImages}

\* the combinations a batch asks for
RECURSIVE Work(_, _, _)
Work(registry, batch, upto) ==
    IF upto = 0 THEN 0
    ELSE Work(registry, batch, upto - 1)
         + (IF batch[upto].decodes
            THEN TotalCount(BasesOf(registry, batch[upto].tags)) ELSE 1)

\* the Mutex<iterator> par_bridge shares between its worker loops
NoBridge == [made |-> FALSE, poisoned |-> FALSE, iter |-> power_set(<<>>)]

\* the worker loops of one par_bridge: how many wait for the iterator, the
\* combinations the others hold, and how many have ended or unwound
Workers0 == [idle |-> NumWorkers, busy |-> {}, exit |-> 0, dead |-> 0]

Init ==
    /\ stages \in Registries
    /\ images \in Batches
    /\ Len(images) = 1 \/ Work(stages, images, Len(images)) <= MaxWork
    /\ cuts \in SUBSET (1..Len(images) - 1)
    /\ imgState = [i \in 1..Len(images) |-> "pending"]
    /\ iters = [i \in 1..Len(images) |-> NoBridge]
    /\ workers = [i \in 1..Len(images) |-> Workers0]
    /\ built = {}
    /\ written = {}
    /\ failed = {}
    /\ files = <<>>
    /\ saves = [i \in 1..Len(images) |-> 0]
    /\ it = possibilities(<<>>)
    /\ emitted = <<>>
    /\ ret = NotCalled
    /\ extra = 0
    /\ NoPair

\* image i is the next of its leaf: the leaf runs its images in order and
\* a panic unwinds the leaf, dropping the images after it
CanStart(i) ==
    /\ imgState[i] = "pending"
    /\ IF i = 1 \/ (i - 1) \in cuts THEN TRUE
       ELSE imgState[i - 1] \in {"done", "skipped"}

\* `Err(_) => return`: what a failed image::open does to the image's task
OnDecodeErrorUnwrap == "panicked"
OnDecodeError == "skipped"

\* execute(), one image: image::open, then all_pipelines up to par_bridge()
Load(i) ==
    /\ CanStart(i)
    /\ IF images[i].decodes
       THEN /\ imgState' = [imgState EXCEPT ![i] = "running"]
            /\ iters' = [iters EXCEPT ![i] =
                            [made |-> TRUE, poisoned |-> FALSE,
                             iter |-> power_set(BasesOf(stages, images[i].tags))]]
       ELSE /\ imgState' = [imgState EXCEPT ![i] = OnDecodeError]
            /\ UNCHANGED iters
    /\ UNCHANGED <<stages, images, cuts, workers, built, written, failed, files, saves, enumVars, pairVars>>

\* a worker loop locks the iterator and pulls the next combination through
\* the map closure; None ends the loop, a panic inside next() poisons the lock
Take(i) ==
    /\ imgState[i] = "running"
    /\ workers[i].idle > 0
    /\ IF iters[i].poisoned
       THEN /\ workers' = [workers EXCEPT ![i].idle = @ - 1, ![i].exit = @ + 1]
            /\ UNCHANGED <<iters, built>>
       ELSE LET r == PowerSetIterator_next(iters[i].iter)
            IN IF r.ret.some
               THEN /\ iters' = [iters EXCEPT ![i].iter = r.self]
                    /\ workers' = [workers EXCEPT
                          ![i].idle = @ - 1,
                          ![i].busy = @ \cup {[set |-> r.ret.val,
                                               task |-> BuildTask(r.ret.val,
                                                           SeedOf(images[i].stem))]}]
                    /\ built' = built \cup {<<i, idx>> : idx \in
                                      {j \in 1..Len(r.ret.val) : r.ret.val[j] > 0}}
               ELSE IF r.ret = None
               THEN /\ iters' = [iters EXCEPT ![i].iter = r.self]
                    /\ workers' = [workers EXCEPT ![i].idle = @ - 1, ![i].exit = @ + 1]
                    /\ UNCHANGED built
               ELSE /\ iters' = [iters EXCEPT ![i].poisoned = TRUE]
                    /\ workers' = [workers EXCEPT ![i].idle = @ - 1, ![i].dead = @ + 1]
                    /\ UNCHANGED built
    /\ UNCHANGED <<stages, images, cuts, imgState, written, failed, files, saves, enumVars, pairVars>>

\* the for_each closure on the combination t, img.save() returning Ok
PersistOk(i, t) ==
    /\ imgState[i] = "running"
    /\ t \in workers[i].busy
    /\ LET out == Output(i, t.task)
       IN /\ written' = written \cup {[img |-> i, set |-> t.set, frags |-> out.frags,
                                        path |-> out.path, content |-> out.content]}
          /\ files' = (out.path :> out.content) @@ files
    /\ saves' = [saves EXCEPT ![i] = @ + 1]
    /\ workers' = [workers EXCEPT ![i].busy = @ \ {t}, ![i].idle = @ + 1]
    /\ UNCHANGED <<stages, images, cuts, imgState, iters, built, failed, enumVars, pairVars>>

\* the for_each closure on the combination t, img.save() returning Err:
\* unwrap() panics and the worker loop unwinds
PersistErr(i, t) ==
    /\ imgState[i] = "running"
    /\ t \in workers[i].busy
    /\ Cardinality(failed) < MaxFailures
    /\ failed' = failed \cup {<<i, t.set>>}
    /\ workers' = [workers EXCEPT ![i].busy = @ \ {t}, ![i].dead = @ + 1]
    /\ UNCHANGED <<stages, images, cuts, imgState, iters, built, written, files, saves, enumVars, pairVars>>

\* par_bridge().for_each returns once every worker loop has ended, and
\* resumes a worker's panic if there was one
Join(i) ==
    /\ imgState[i] = "running"
    /\ workers[i].idle = 0 /\ workers[i].busy = {}
    /\ imgState' = [imgState EXCEPT ![i] =
                       IF workers[i].dead > 0 THEN "panicked" ELSE "done"]
    /\ UNCHANGED <<stages, images, cuts, iters, workers, built, written, failed, files, saves, enumVars,
                   pairVars>>

Next ==
    \/ \E i \in 1..Len(images) : Load(i)
    \/ \E i \in 1..Len(images) : Take(i)
    \/ \E i \in 1..Len(images) : \E t \in workers[i].busy : PersistOk(i, t)
    \/ \E i \in 1..Len(images) : \E t \in workers[i].busy : PersistErr(i, t)
    \/ \E i \in 1..Len(images) : Join(i)

\* the runs in which every img.save() succeeds
NextOk ==
    \/ \E i \in 1..Len(images) : Load(i)
    \/ \E i \in 1..Len(images) : Take(i)
    \/ \E i \in 1..Len(images) : \E t \in workers[i].busy : PersistOk(i, t)
    \/ \E i \in 1..Len(images) : Join(i)

SpecOk == Init /\ [][NextOk]_vars

\* the batches whose files all have the stem "a" (a.png, a.jpg, ...)
InitOneStem == Init /\ \A i \in 1..Len(images) : images[i].stem = <<"a">>

\* the worker threads of the pool keep running: a step that can be taken is
\* taken
FairSpecOk == InitOneStem /\ [][NextOk]_vars /\ WF_vars(NextOk)

\* ------------------------------------------- all_pipelines on one image
\* the registries above, the scenario's with a blur narrower than its name's
\* two decimals, two blurs in a row, and an off-axis rotation
PipelineRegistries ==
    Registries \cup
    { <<RotationBuilder, BlurBuilder(2, 5000, 5004)>>,
      <<BlurBuilder(1, 1000, 3000), BlurBuilder(1, 5000, 10000)>>,
      <<OffAxisRotationBuilder(2, 30), RotationBuilder>> }

PipelineTagSets == TagSets \cup {{CWISE_LABEL}, {OFF_AXIS_LABEL, BRIGHTEN_LABEL}}

InitImage ==
    /\ stages \in PipelineRegistries
    /\ images \in [1..1 -> [stem : Stems, tags : PipelineTagSets, decodes : {TRUE}]]
    /\ cuts = {}
    /\ imgState = <<"pending">>
    /\ iters = <<NoBridge>>
    /\ workers = <<Workers0>>
    /\ built = {}
    /\ written = {}
    /\ failed = {}
    /\ files = <<>>
    /\ saves = <<0>>
    /\ it = possibilities(<<>>)
    /\ emitted = <<>>
    /\ ret = NotCalled
    /\ extra = 0
    /\ NoPair

SpecImage == InitImage /\ [][NextOk]_vars

\* ------------------------------------- the two enumerators, side by side
InitBoth ==
    /\ \E b \in BaseLists : it = possibilities(b) /\ ps = power_set(b)
    /\ emitted = <<>>
    /\ ret = NotCalled
    /\ extra = 0
    /\ psEmitted = <<>>
    /\ psRet = NotCalled
    /\ NoExecutor

\* the consumer calls next() on both; a panic ends the run
CallBoth ==
    /\ extra < MaxExtraCalls
    /\ psRet # Panicked
    /\ LET r == SetVariationIterator_next(it)
           q == PowerSetIterator_next(ps)
       IN /\ it' = r.self
          /\ ret' = r.ret
          /\ emitted' = IF r.ret.some THEN Append(emitted, r.ret.val) ELSE emitted
          /\ extra' = IF ret = None THEN extra + 1 ELSE extra
          /\ ps' = q.self
          /\ psRet' = q.ret
          /\ psEmitted' = IF q.ret.some THEN Append(psEmitted, q.ret.val) ELSE psEmitted
    /\ UNCHANGED schedVars

NextBoth == CallBoth

SpecBoth == InitBoth /\ [][NextBoth]_vars

Spec == Init /\ [][Next]_vars

\* ------------------------------------------- reference notions (arithmetic)
\* {0..b_1} x ... x {0..b_n}
RECURSIVE LargestOf(_)
LargestOf(bases) ==
    IF bases = <<>> THEN 0
    ELSE LET rest == LargestOf(Tail(bases))
         IN IF Head(bases) > rest THEN Head(bases) ELSE rest

CrossProduct(bases) == {v \in [1..Len(bases) -> 0..LargestOf(bases)] :
                           \A i \in 1..Len(bases) : v[i] <= bases[i]}

InCrossProduct(v, bases) ==
    /\ Len(v) = Len(bases)
    /\ \A i \in 1..Len(bases) : 0 <= v[i] /\ v[i] <= bases[i]

\* the k-th vector (k from 0) of the mixed-radix count with digit 1 fastest
KthVector(bases, k) ==
    [i \in 1..Len(bases) |-> (k \div Radix(bases, i - 1)) % (bases[i] + 1)]

\* first position (from the fast end) whose digit is below its base, 0 if none
RECURSIVE FirstBelow(_, _, _)
FirstBelow(v, bases, i) ==
    IF i > Len(bases) THEN 0
    ELSE IF v[i] < bases[i] THEN i ELSE FirstBelow(v, bases, i + 1)

\* mixed-radix successor: lower digits at their base reset, the next one counts up
Successor(v, bases) ==
    LET p == FirstBelow(v, bases, 1)
    IN [i \in 1..Len(bases) |-> IF i < p THEN 0 ELSE IF i = p THEN v[i] + 1 ELSE v[i]]

NonNegative(bases) == \A i \in 1..Len(bases) : bases[i] >= 0

\* the list with position i removed
RemoveAt(s, i) == [j \in 1..Len(s) - 1 |-> IF j < i THEN s[j] ELSE s[j + 1]]

\* every negative base replaced by 0
ClampNegative(bases) == [i \in 1..Len(bases) |-> IF bases[i] < 0 THEN 0 ELSE bases[i]]

\* iter.collect::<Vec<_>>(): next() until the first None, at most fuel items
RECURSIVE Drain(_, _, _)
Drain(self, acc, fuel) ==
    IF fuel = 0 THEN acc
    ELSE LET r == SetVariationIterator_next(self)
         IN IF r.ret.some THEN Drain(r.self, Append(acc, r.ret.val), fuel - 1) ELSE acc

Collect(bases) == Drain(possibilities(bases), <<>>, TotalCount(ClampNegative(bases)) + 1)

\* the call that just returned was the first to return None
Exhausted == ret = None

\* ------------------------------------------------------------------ claims
\* C1: for a non-empty list of non-negative bases, every emitted vector lies in
\* the cross product {0..b_1} x ... x {0..b_n}, no vector is emitted twice, and
\* when next() first returns None exactly PRODUCT(b_i + 1) vectors were emitted,
\* which are then all of the cross product.
C1_CrossProductOnce ==
    LET bases == it.maxes
        n == Len(emitted)
    IN (Len(bases) > 0 /\ NonNegative(bases)) =>
          /\ \A k \in 1..n : InCrossProduct(emitted[k], bases)
          /\ \A j \in 1..n - 1 : emitted[j] # emitted[n]
          /\ Exhausted => /\ n = TotalCount(bases)
                          /\ {emitted[k] : k \in 1..n} = CrossProduct(bases)

C1_Witness ==
    /\ it.maxes = <<3, 1, 1>>
    /\ Exhausted
    /\ Len(emitted) = 16

\* C2: for a non-empty list of non-negative bases the emission is the odometer
\* count: the first vector is all-zero, each vector is the mixed-radix successor
\* of the one before it (digit 1 fastest), the k-th vector (k from 0) has
\* d_i = (k div PRODUCT_{j<i}(b_j + 1)) mod (b_i + 1), and the last one before
\* None is the base list itself.
C2_OdometerOrder ==
    LET bases == it.maxes
        n == Len(emitted)
    IN (Len(bases) > 0 /\ NonNegative(bases)) =>
          /\ n >= 1 => emitted[1] = Zeros(Len(bases))
          /\ \A k \in 1..n : emitted[k] = KthVector(bases, k - 1)
          /\ n >= 2 => emitted[n] = Successor(emitted[n - 1], bases)
          /\ Exhausted => emitted[n] = bases

C2_Witness ==
    /\ it.maxes = <<3, 1, 1>>
    /\ Len(emitted) = 9
    /\ emitted[8] = <<3, 1, 0>>
    /\ emitted[9] = <<0, 0, 1>>

\* C3: a position whose base is 0 holds digit 0 in every emitted vector, and
\* the complete emission with that position removed is the complete emission
\* for the base list without it (when that shorter list is non-empty).
C3_ZeroBasePinned ==
    LET bases == it.maxes
        n == Len(emitted)
    IN \A i \in 1..Len(bases) :
          bases[i] = 0 =>
             /\ \A k \in 1..n : emitted[k][i] = 0
             /\ (Exhausted /\ Len(bases) > 1) =>
                   [k \in 1..n |-> RemoveAt(emitted[k], i)] = Collect(RemoveAt(bases, i))

C3_Witness ==
    /\ it.maxes = <<2, 0, 1>>
    /\ Exhausted
    /\ Len(emitted) = 6

\* C4: for the empty base list nothing is ever emitted: the first call of next()
\* returns None and so does every later call.
C4_EmptyYieldsNothing ==
    Len(it.maxes) = 0 => /\ emitted = <<>>
                         /\ ret \in {NotCalled, None}

C4_Witness ==
    /\ Len(it.maxes) = 0
    /\ ret = None
    /\ extra >= 1

\* C5: a negative base behaves as base 0: its digit is 0 in every emitted
\* vector, and the complete emission equals the complete emission for the list
\* with every negative base replaced by 0.
C5_NegativeAsZero ==
    LET bases == it.maxes
        n == Len(emitted)
    IN /\ \A i \in 1..Len(bases) : bases[i] < 0 => \A k \in 1..n : emitted[k][i] = 0
       /\ (Exhausted /\ ~NonNegative(bases)) =>
             /\ emitted = Collect(ClampNegative(bases))
             /\ n = TotalCount(ClampNegative(bases))

C5_Witness ==
    /\ it.maxes = <<2, -1, 1>>
    /\ Exhausted
    /\ Len(emitted) = 6

\* ------------------------------------------------- the executor's claims
\* image i was dropped: an earlier image of its leaf panicked
RECURSIVE Dropped(_)
Dropped(i) ==
    /\ imgState[i] = "pending"
    /\ i > 1
    /\ (i - 1) \notin cuts
    /\ imgState[i - 1] = "panicked" \/ Dropped(i - 1)

\* execute() has nothing left to run
BatchOver ==
    \A i \in 1..Len(images) : imgState[i] \in {"done", "skipped", "panicked"} \/ Dropped(i)

\* what the tasks of image i persisted
WrittenBy(i) == {r \in written : r.img = i}

\* PRODUCT over the registered builders of
\* (variations() + 1 if should_execute(original tags) else 1)
RECURSIVE EligibleProduct(_, _)
EligibleProduct(tags, upto) ==
    IF upto = 0 THEN 1
    ELSE EligibleProduct(tags, upto - 1)
         * (IF should_execute(stages[upto], tags) THEN variations(stages[upto]) + 1 ELSE 1)

\* the digit-vectors of image i's combination space
Combos(i) ==
    CrossProduct([idx \in 1..Len(stages) |->
                     IF should_execute(stages[idx], images[i].tags)
                     THEN variations(stages[idx]) ELSE 0])

\* the unmodified image under the unmodified base name
IsBaseOutput(r, i) ==
    /\ r.path = OutPath(StemString(images[i].stem))
    /\ r.content = Loaded(i)

\* C6 as stated: for a batch of one decoded image, the number of output files
\* equals PRODUCT(variations + 1 if eligible else 1), and exactly one of them is
\* the all-zero combination, the unmodified image under the base name.
C6_FileCountIsProduct ==
    (Len(images) = 1 /\ imgState = <<"done">>) =>
        /\ Cardinality({r.path : r \in WrittenBy(1)}) = EligibleProduct(images[1].tags, Len(stages))
        /\ Cardinality({r \in WrittenBy(1) : r.set = Zeros(Len(stages))}) = 1
        /\ \A r \in WrittenBy(1) : r.set = Zeros(Len(stages)) => IsBaseOutput(r, 1)

\* C6 amended: for every decoded image whose run completed, the number of
\* combinations persisted (each once, each under the name computed for it)
\* equals PRODUCT(variations + 1 if eligible else 1), exactly one of them is the
\* all-zero combination, persisted as the unmodified image under the base name;
\* the distinct output files are at most that many.
C6_PersistCountIsProduct ==
    \A i \in 1..Len(images) :
        imgState[i] = "done" =>
            LET mine == WrittenBy(i)
                total == EligibleProduct(images[i].tags, Len(stages))
            IN /\ Cardinality(mine) = total
               /\ Cardinality({r.set : r \in mine}) = total
               /\ Cardinality({r \in mine : r.set = Zeros(Len(stages))}) = 1
               /\ \A r \in mine : r.set = Zeros(Len(stages)) => IsBaseOutput(r, i)
               /\ Cardinality({r.path : r \in mine}) <= total

C6_Witness ==
    /\ Len(images) = 1
    /\ imgState = <<"done">>
    /\ stages = <<BlurBuilder(2, 5000, 5004)>>
    /\ Cardinality(WrittenBy(1)) = 3
    /\ Cardinality({r.path : r \in WrittenBy(1)}) = 2

\* C7: for every image and every builder whose should_execute is false on the
\* image's original tags: its base is 0, its digit is 0 in every combination
\* taken or persisted for the image, build_stage was never called on it for the
\* image, and no output name of the image holds a fragment it produced.
C7_EligibilityGating ==
    \A i \in 1..Len(images) : \A idx \in 1..Len(stages) :
        ~should_execute(stages[idx], images[i].tags) =>
            /\ iters[i].made => iters[i].iter.maxes[idx] = 0
            /\ \A t \in workers[i].busy :
                  /\ t.set[idx] = 0
                  /\ \A k \in 1..Len(t.task) : t.task[k].idx # idx
            /\ <<i, idx>> \notin built
            /\ \A r \in WrittenBy(i) :
                  /\ r.set[idx] = 0
                  /\ \A k \in 1..Len(r.frags) : r.frags[k].idx # idx

C7_Witness ==
    /\ stages = <<BlurBuilder(1, 5000, 10000), RotationBuilder>>
    /\ images[1].tags = {BLURRED_LABEL}
    /\ imgState[1] = "done"
    /\ Cardinality(WrittenBy(1)) = 4

\* the (output name, output content) pair of combination v of image i,
\* computed outside any run
PairOf(i, v) ==
    LET out == Output(i, BuildTask(v, SeedOf(images[i].stem)))
    IN <<out.path, out.content>>

ExpectedPairs ==
    UNION {{PairOf(i, v) : v \in Combos(i)} : i \in {j \in 1..Len(images) : images[j].decodes}}

C9_PersistFailureIsolated ==
    (BatchOver /\ failed # {}) =>
        \A i \in 1..Len(images) :
            images[i].decodes =>
                \A v \in Combos(i) :
                    <<i, v>> \in failed \/ \E r \in WrittenBy(i) : r.set = v

\* C10: an image that fails to load is skipped: no iterator is made for it,
\* no worker loop runs for it, build_stage is never called for it and nothing
\* is written for it; and at the end of a batch holding such an image, every
\* decoded image is done with every vector of its combination space persisted.
C10_DecodeFailureSkipped ==
    /\ \A i \in 1..Len(images) :
          ~images[i].decodes =>
              /\ imgState[i] \in {"pending", "skipped"}
              /\ ~iters[i].made
              /\ workers[i] = Workers0
              /\ WrittenBy(i) = {}
              /\ \A idx \in 1..Len(stages) : <<i, idx>> \notin built
    /\ (BatchOver /\ \E i \in 1..Len(images) : ~images[i].decodes) =>
          \A j \in 1..Len(images) :
              images[j].decodes =>
                  /\ imgState[j] = "done"
                  /\ \A v \in Combos(j) : \E r \in WrittenBy(j) : r.set = v

C10_Witness ==
    /\ Len(images) = 2
    /\ cuts = {}
    /\ ~images[1].decodes
    /\ imgState = <<"skipped", "done">>
    /\ Cardinality(WrittenBy(2)) = 4

\* ------------------------------------------- one image's pipeline: claims
\* the scenario: one decoded image without tags, a rotation and then a blur of
\* two samples registered, the run complete
InScenario ==
    /\ Len(images) = 1
    /\ images[1].tags = {}
    /\ Len(stages) = 2
    /\ stages[1] = RotationBuilder
    /\ stages[2].kind = "Blur" /\ stages[2].samples = 2
    /\ imgState = <<"done">>

\* the name fragments of builder idx's variants for image i
FragmentsOf(i, idx) ==
    LET list == build_stage(stages[idx], seed_from_u64(SeedOf(images[i].stem)))
    IN [j \in 1..Len(list) |-> Stage_name(list[j])]

\* the kinds of the builders whose fragments an output name holds
FragKinds(r) == [k \in 1..Len(r.frags) |-> stages[r.frags[k].idx].kind]

\* one rotation fragment and no other
RotationOnly(r) == FragKinds(r) = <<"Rotation">>

BasePath(i) == OutPath(StemString(images[i].stem))

\* C11 as stated: in the scenario the output directory holds 12 files, exactly
\* one of them the unmodified image under the base name, and exactly three of
\* them named with one rotation fragment and no blur fragment.
C11_TwelveFiles ==
    InScenario =>
        /\ Cardinality(DOMAIN files) = 12
        /\ BasePath(1) \in DOMAIN files /\ files[BasePath(1)] = Loaded(1)
        /\ Cardinality({r \in WrittenBy(1) : IsBaseOutput(r, 1)}) = 1
        /\ Cardinality({r.path : r \in {q \in WrittenBy(1) : RotationOnly(q)}}) = 3

\* C11 amended: in the scenario 4 x 3 = 12 combinations are persisted, each
\* once; exactly one is the unmodified image under the base name and exactly
\* three are named with one rotation fragment and no blur fragment, under three
\* distinct names; the directory holds 12 files when the two blur variants have
\* distinct name fragments and 8 when they share one.
C11_TwelveCombinations ==
    InScenario =>
        /\ Cardinality(WrittenBy(1)) = 12
        /\ saves[1] = 12
        /\ BasePath(1) \in DOMAIN files /\ files[BasePath(1)] = Loaded(1)
        /\ Cardinality({r \in WrittenBy(1) : IsBaseOutput(r, 1)}) = 1
        /\ Cardinality({r \in WrittenBy(1) : RotationOnly(r)}) = 3
        /\ Cardinality({r.path : r \in {q \in WrittenBy(1) : RotationOnly(q)}}) = 3
        /\ Cardinality(DOMAIN files) =
              (IF FragmentsOf(1, 2)[1] # FragmentsOf(1, 2)[2] THEN 12 ELSE 8)

C11_Witness ==
    /\ InScenario
    /\ stages[2] = BlurBuilder(2, 5000, 10000)
    /\ Cardinality(DOMAIN files) = 12
    /\ saves[1] = 12

\* the variant list build_stage returns for builder idx on a generator freshly
\* seeded from image i's name
VariantsOf(i, idx) == build_stage(stages[idx], seed_from_u64(SeedOf(images[i].stem)))

\* the builders a persisted combination r applied a stage of
AppliedIdx(r) == {r.frags[k].idx : k \in 1..Len(r.frags)}

\* the stage r applied for builder idx
AppliedAt(r, idx) ==
    r.content.ops[CHOOSE k \in 1..Len(r.frags) : r.frags[k].idx = idx]

\* C12: in every persisted combination, for each position with d_i > 0 exactly
\* one stage of builder i is applied and it is element d_i - 1 (0-indexed) of
\* the list build_stage returns for builder i; that list has variations()
\* elements and d_i is within it; for each position with d_i = 0 no stage of
\* builder i is applied; the all-zero combination applies no stage and keeps
\* the base name.
C12_DigitSelectsVariant ==
    \A r \in written :
        /\ Len(r.content.ops) = Len(r.frags)
        /\ \A idx \in 1..Len(stages) :
              IF r.set[idx] > 0
              THEN /\ Len(VariantsOf(r.img, idx)) = variations(stages[idx])
                   /\ r.set[idx] <= Len(VariantsOf(r.img, idx))
                   /\ Cardinality({k \in 1..Len(r.frags) : r.frags[k].idx = idx}) = 1
                   /\ AppliedAt(r, idx) = VariantsOf(r.img, idx)[(r.set[idx] - 1) + 1]
              ELSE idx \notin AppliedIdx(r)
        /\ r.set = Zeros(Len(stages)) =>
              /\ r.content = Loaded(r.img)
              /\ r.path = BasePath(r.img)

C12_Witness ==
    /\ stages = <<RotationBuilder, BlurBuilder(2, 5000, 10000)>>
    /\ \E r \in written :
          /\ r.set = <<3, 2>>
          /\ r.content.ops[1] = Stage("UpsideDown", 0)
          /\ r.content.ops[2] = VariantsOf(1, 2)[2]
    /\ \E r \in written : r.set = <<0, 0>>

\* the stages digit-vector v selects for image i, from position idx on, in
\* ascending registration order
RECURSIVE SelectedFrom(_, _, _)
SelectedFrom(i, v, idx) ==
    IF idx > Len(v) THEN <<>>
    ELSE (IF v[idx] > 0 THEN <<VariantsOf(i, idx)[v[idx]]>> ELSE <<>>)
         \o SelectedFrom(i, v, idx + 1)

\* name, then "_" and the name() fragment of each stage of sts in order
RECURSIVE NameFrom(_, _)
NameFrom(name, sts) ==
    IF sts = <<>> THEN name
    ELSE NameFrom(name \o "_" \o Stage_name(Head(sts)), Tail(sts))

\* C13: every persisted combination holds the loaded image with the selected
\* stages applied one after the other in ascending registration order of their
\* builders; its name is the base name followed, for each applied stage in
\* that order, by "_" and the stage's fragment, and the file written is
\* <name>.png in the output directory.
C13_OrderAndName ==
    \A r \in written :
        LET sts == SelectedFrom(r.img, r.set, 1)
        IN /\ r.content = [src |-> r.img, ops |-> sts]
           /\ \A k \in 1..Len(r.frags) - 1 : r.frags[k].idx < r.frags[k + 1].idx
           /\ [k \in 1..Len(r.frags) |-> r.frags[k].frag]
                 = [k \in 1..Len(sts) |-> Stage_name(sts[k])]
           /\ r.path = "processed/" \o NameFrom(StemString(images[r.img].stem), sts) \o ".png"
           /\ r.path \in DOMAIN files

C13_Witness ==
    /\ stages = <<BlurBuilder(1, 5000, 10000), RotationBuilder>>
    /\ images[1].stem = <<"a">>
    /\ \E r \in written :
          /\ r.set = <<1, 2>>
          /\ r.path = "processed/a_blur_8.39_couwise.png"
          /\ r.content.ops = <<Stage("Blur", 8389), Stage("Cclockwise", 0)>>

\* C14: for a fixed image name, the variant list every task holds for builder
\* i is the one build_stage returns on a generator freshly seeded from that
\* name, and the stage applied for position i is the same in any two
\* persisted combinations of images of that name that have the same digit
\* d_i > 0, whatever their other digits and whichever task ran them.
C14_StageDependsOnNameAndDigit ==
    /\ \A i \in 1..Len(images) : \A t \in workers[i].busy : \A k \in 1..Len(t.task) :
          t.task[k].stage = VariantsOf(i, t.task[k].idx)
    /\ \A r, q \in written : \A idx \in 1..Len(stages) :
          (/\ images[r.img].stem = images[q.img].stem
           /\ r.set[idx] > 0
           /\ r.set[idx] = q.set[idx]) =>
              /\ idx \in AppliedIdx(r) /\ idx \in AppliedIdx(q)
              /\ AppliedAt(r, idx) = AppliedAt(q, idx)

C14_Witness ==
    /\ stages = <<LuminosityBuilder(5, 10), BlurBuilder(1, 5000, 10000)>>
    /\ \E r, q \in written :
          /\ r.set = <<0, 1>> /\ q.set = <<2, 1>>
          /\ Len(q.content.ops) = 2
          /\ AppliedAt(r, 2) = AppliedAt(q, 2)

\* C15: the bases an image's iterator counts over are fixed by the image's
\* original tags, and every persisted combination applied a stage of exactly
\* the builders whose digit is above 0, each of them eligible on the original
\* tags: a stage applied earlier in the combination never disables a later one.
C15_TagsNotThreaded ==
    /\ \A i \in 1..Len(images) :
          iters[i].made =>
              iters[i].iter.maxes =
                  [idx \in 1..Len(stages) |->
                      IF should_execute(stages[idx], images[i].tags)
                      THEN variations(stages[idx]) ELSE 0]
    /\ \A r \in written :
          /\ AppliedIdx(r) = {idx \in 1..Len(stages) : r.set[idx] > 0}
          /\ Len(r.content.ops) = Cardinality({idx \in 1..Len(stages) : r.set[idx] > 0})
          /\ \A idx \in AppliedIdx(r) : should_execute(stages[idx], images[r.img].tags)

C15_Witness ==
    /\ stages = <<BlurBuilder(1, 1000, 3000), BlurBuilder(1, 5000, 10000)>>
    /\ \E r \in written :
          /\ r.set = <<1, 1>>
          /\ Len(r.content.ops) = 2
          /\ ~should_execute(stages[2], Stage_execute(r.content.ops[1], Loaded(1)).tags)

\* ------------------------------------------------ the batch: more claims
\* the persisted combinations of image i are counted once each, and none of
\* them is held by a worker loop again
PersistedOnce(i) ==
    /\ saves[i] = Cardinality({r.set : r \in WrittenBy(i)})
    /\ \A t \in workers[i].busy : \A r \in WrittenBy(i) : r.set # t.set
    /\ \A r \in WrittenBy(i) : r.set \in Combos(i)

\* the run is over: every decoded image done with every vector of its
\* combination space persisted, once, and nothing left to run
Completed ==
    /\ \A i \in 1..Len(images) :
          IF images[i].decodes
          THEN /\ imgState[i] = "done"
               /\ {r.set : r \in WrittenBy(i)} = Combos(i)
               /\ saves[i] = Cardinality(Combos(i))
               /\ workers[i].busy = {} /\ workers[i].idle = 0
          ELSE imgState[i] = "skipped"

\* C16: when no persist fails, no combination is ever persisted twice or taken
\* again after it was persisted, and the run reaches, and stays in, the state
\* where every decoded image is done with every digit-vector of its
\* combination space persisted exactly once and nothing is left to run.
C16_RunsToCompletion ==
    /\ [](\A i \in 1..Len(images) : PersistedOnce(i))
    /\ <>[]Completed

C16_Witness ==
    /\ Completed
    /\ Len(images) = 2
    /\ cuts = {1}
    /\ saves = <<3, 3>>

\* ---------------------------------------------------------- output names
\* the builders eligible on image i's original tags
Eligible(i) == {idx \in 1..Len(stages) : should_execute(stages[idx], images[i].tags)}

\* no two variants of image i's eligible builders, of one builder or of two,
\* have the same name fragment
FragmentsDistinct(i) ==
    LET frag == [idx \in Eligible(i) |-> FragmentsOf(i, idx)]
    IN \A idx1, idx2 \in Eligible(i) :
          \A j1 \in 1..Len(frag[idx1]) : \A j2 \in 1..Len(frag[idx2]) :
              <<idx1, j1>> # <<idx2, j2>> => frag[idx1][j1] # frag[idx2][j2]

\* C17 as stated: for one image, any two distinct digit-vectors are persisted
\* under distinct output file names.
C17_NamesUnique ==
    \A r, q \in written :
        (r.img = q.img /\ r.set # q.set) => r.path # q.path

\* C17 amended: for an image whose eligible builders' variants all have
\* pairwise distinct name fragments, any two distinct digit-vectors are
\* persisted under distinct output file names, and every persisted
\* combination of a completed run is found in the directory under its name;
\* two vectors that differ only in variants with the same fragment are
\* persisted under the same name.
C17_NamesUniqueWhenFragmentsAre ==
    /\ \A i \in 1..Len(images) :
          (WrittenBy(i) # {} /\ FragmentsDistinct(i)) =>
              /\ \A r, q \in WrittenBy(i) : r.set # q.set => r.path # q.path
              /\ imgState[i] = "done" =>
                    \A r \in WrittenBy(i) :
                        r.path \in DOMAIN files /\ files[r.path] = r.content
    /\ \A r, q \in written :
          (/\ r.img = q.img
           /\ [k \in 1..Len(r.frags) |-> r.frags[k].frag]
                 = [k \in 1..Len(q.frags) |-> q.frags[k].frag]) => r.path = q.path

C17_Witness ==
    /\ stages = <<OffAxisRotationBuilder(2, 30), RotationBuilder>>
    /\ imgState = <<"done">>
    /\ FragmentsDistinct(1)
    /\ Cardinality(WrittenBy(1)) = 12
    /\ Cardinality(DOMAIN files) = 12

\* ------------------------------------------- the enumerators: more claims
\* C18: driven side by side on the same base list, PowerSetIterator and
\* SetVariationIterator return the same value from every next() call, have
\* emitted the same vectors, and neither call panics.
C18_EnumeratorsEquivalent ==
    /\ psRet = ret
    /\ psEmitted = emitted
    /\ psRet # Panicked
    /\ ret # Panicked

\* max(b, 0)
AtLeastZero(b) == IF b < 0 THEN 0 ELSE b

\* the stored vector, when there is one, has a digit per base, each within
\* 0..=max(b_i, 0)
VariationInRange ==
    it.variation.some =>
        /\ Len(it.variation.val) = Len(it.maxes)
        /\ \A i \in 1..Len(it.maxes) :
              0 <= it.variation.val[i] /\ it.variation.val[i] <= AtLeastZero(it.maxes[i])

\* C19: in every reachable state the stored vector is in range, and once
\* next() has returned None every later call returns None and emits nothing.
C19_FusedAndInRange ==
    /\ []VariationInRange
    /\ [][ret = None => (ret' = None /\ emitted' = emitted)]_vars

C19_Witness ==
    /\ it.maxes = <<1, 1>>
    /\ it.finished
    /\ it.variation = Some(<<0, 0>>)
    /\ Len(emitted) = 4
    /\ ret = None
    /\ extra = 2

\* C20: in one batch, no two persisted combinations of different input
\* records have the same output path.
C20_NoCrossImageOverwrite ==
    \A r, q \in written : r.img # q.img => r.path # q.path
====
